---- MODULE Spec2Model ----
(***************************************************************************)
(* Model of scripts/update_index.py: the index builder that scans          *)
(* diagrams/*.mmd, extracts the frontmatter of each file, resolves the     *)
(* rendered artifacts and writes index.yml.                                *)
(*                                                                         *)
(* Text is a sequence of symbols.  A symbol is one character ("/", "*",    *)
(* "-", " ", "\n") or a chunk symbol standing for a run of characters that *)
(* holds no "/", no "*" and no "---" and neither starts nor ends with      *)
(* whitespace or "-"; the two regular expressions of extract_frontmatter   *)
(* treat such a run exactly as they treat one ordinary character.          *)
(***************************************************************************)
EXTENDS Integers, Sequences, FiniteSets, TLC

(***************************************************************************)
(* Bounds of the model.                                                    *)
(***************************************************************************)
MaxFiles == 2
MaxRuns == 2
MaxChunks == 5

(***************************************************************************)
(* Characters and regular-expression primitives.                           *)
(***************************************************************************)
SP == " "
NL == "\n"

IsSpace(c) == c \in {SP, NL}

HasAt(t, p, lit) ==
    /\ p >= 1
    /\ p + Len(lit) - 1 <= Len(t)
    /\ SubSeq(t, p, p + Len(lit) - 1) = lit

\* length of the longest run of whitespace starting at position p (greedy \s*)
RECURSIVE WsRun(_, _)
WsRun(t, p) ==
    IF p >= 1 /\ p <= Len(t) /\ IsSpace(t[p]) THEN 1 + WsRun(t, p + 1) ELSE 0

\* \s*close tried at position ge: the greedy run, then backtracking to shorter runs
TailMatches(t, ge, close) ==
    \E w2 \in 0..WsRun(t, ge) : HasAt(t, ge + w2, close)

\* (.*?) followed by \s*close: the lazy group grows one symbol at a time from
\* ge; the result is the first group end (exclusive) that lets the tail match,
\* 0 when none does.  re.S lets the dot match a newline.
RECURSIVE LazyGroup(_, _, _)
LazyGroup(t, ge, close) ==
    IF ge > Len(t) + 1 THEN 0
    ELSE IF TailMatches(t, ge, close) THEN ge
    ELSE LazyGroup(t, ge + 1, close)

\* the leading greedy \s* : w1 symbols of whitespace are consumed, the longest
\* run first, then shorter ones on backtracking.  Result <<gs, ge>>, the group
\* being t[gs..ge-1], or <<0, 0>>.
RECURSIVE LeadGreedy(_, _, _, _)
LeadGreedy(t, s, w1, close) ==
    LET ge == LazyGroup(t, s + w1, close) IN
    IF ge # 0 THEN <<s + w1, ge>>
    ELSE IF w1 = 0 THEN <<0, 0>>
    ELSE LeadGreedy(t, s, w1 - 1, close)

\* the pattern  open \s* (.*?) \s* close  tried at one start position
MatchAt(t, start, open, close) ==
    IF HasAt(t, start, open)
    THEN LeadGreedy(t, start + Len(open), WsRun(t, start + Len(open)), close)
    ELSE <<0, 0>>

\* re.search: the leftmost start position at which the pattern matches
RECURSIVE SearchFrom(_, _, _, _)
SearchFrom(t, start, open, close) ==
    IF start > Len(t) THEN <<0, 0>>
    ELSE LET m == MatchAt(t, start, open, close) IN
         IF m # <<0, 0>> THEN m ELSE SearchFrom(t, start + 1, open, close)

ReSearch(t, open, close) == SearchFrom(t, 1, open, close)

Group1(t, m) == SubSeq(t, m[1], m[2] - 1)

\* str.strip()
RECURSIVE LStrip(_)
LStrip(s) == IF s # <<>> /\ IsSpace(Head(s)) THEN LStrip(Tail(s)) ELSE s

RECURSIVE RStrip(_)
RStrip(s) ==
    IF s # <<>> /\ IsSpace(s[Len(s)]) THEN RStrip(SubSeq(s, 1, Len(s) - 1)) ELSE s

Strip(s) == RStrip(LStrip(s))

\* re.sub(r'^\s*\*\s?', '', fm, flags=re.MULTILINE), scanning from position p
AtLineStart(fm, p) == p = 1 \/ fm[p - 1] = NL

RECURSIVE SubDecoration(_, _)
SubDecoration(fm, p) ==
    IF p > Len(fm) THEN <<>>
    ELSE LET star == p + WsRun(fm, p)
             after == star + 1
         IN  IF AtLineStart(fm, p) /\ star <= Len(fm) /\ fm[star] = "*"
             THEN IF after <= Len(fm) /\ IsSpace(fm[after])
                  THEN SubDecoration(fm, after + 1)
                  ELSE SubDecoration(fm, after)
             ELSE <<fm[p]>> \o SubDecoration(fm, p + 1)

COpen == <<"/", "*">>
CClose == <<"*", "/">>
Sep == <<"-", "-", "-">>

\* Optional text: None is [ok |-> FALSE, s |-> <<>>]
NoneText == [ok |-> FALSE, s |-> <<>>]
SomeText(s) == [ok |-> TRUE, s |-> s]

\* variant: the separator convention is tried before the comment convention
extract_frontmatter_sep_first(text) ==
    LET m  == ReSearch(text, COpen, CClose)
        m2 == ReSearch(text, Sep, Sep)
    IN  IF m2 # <<0, 0>>
        THEN SomeText(Strip(Group1(text, m2)))
        ELSE IF m # <<0, 0>>
        THEN SomeText(Strip(SubDecoration(Group1(text, m), 1)))
        ELSE NoneText

extract_frontmatter(text) ==
    LET m  == ReSearch(text, COpen, CClose)
        m2 == ReSearch(text, Sep, Sep)
    IN  IF m # <<0, 0>>
        THEN SomeText(Strip(SubDecoration(Group1(text, m), 1)))
        ELSE IF m2 # <<0, 0>>
        THEN SomeText(Strip(Group1(text, m2)))
        ELSE NoneText

(***************************************************************************)
(* Python values.  A value is [t, v, m]: t the type, v the payload as a    *)
(* sequence (the code points of a str, the items of a list, the number of  *)
(* an int), m the items of a dict.                                         *)
(***************************************************************************)
EmptyMap == [k \in {} |-> 0]

NoneV == [t |-> "null", v |-> <<>>, m |-> EmptyMap]
StrV(cp) == [t |-> "str", v |-> cp, m |-> EmptyMap]
IntV(n) == [t |-> "int", v |-> <<n>>, m |-> EmptyMap]
BoolV(b) == [t |-> "bool", v |-> <<IF b THEN 1 ELSE 0>>, m |-> EmptyMap]
ListV(items) == [t |-> "list", v |-> items, m |-> EmptyMap]
DateV(ymd) == [t |-> "date", v |-> ymd, m |-> EmptyMap]
DictV(items) == [t |-> "dict", v |-> <<>>, m |-> items]

EmptyDict == DictV(EmptyMap)
EmptyList == ListV(<<>>)
EmptyStr == StrV(<<>>)

\* truth value of a Python object
Truthy(x) ==
    CASE x.t = "null" -> FALSE
      [] x.t = "bool" -> x.v[1] = 1
      [] x.t = "int"  -> x.v[1] # 0
      [] x.t = "str"  -> x.v # <<>>
      [] x.t = "list" -> x.v # <<>>
      [] x.t = "dict" -> DOMAIN x.m # {}
      [] OTHER        -> TRUE

\* x or y
PyOr(x, y) == IF Truthy(x) THEN x ELSE y

\* d.get(key, default)
DictGet(d, key, default) == IF key \in DOMAIN d.m THEN d.m[key] ELSE default

\* str.lower() on code points
Lower(cp) == [i \in 1..Len(cp) |-> IF cp[i] \in 65..90 THEN cp[i] + 32 ELSE cp[i]]

\* str < str : lexicographic order of the code points
RECURSIVE StrLess(_, _)
StrLess(a, b) ==
    IF b = <<>> THEN FALSE
    ELSE IF a = <<>> THEN TRUE
    ELSE IF Head(a) # Head(b) THEN Head(a) < Head(b)
    ELSE StrLess(Tail(a), Tail(b))

\* date.isoformat(): YYYY-MM-DD
Digit(n) == 48 + n
IsoFormat(ymd) ==
    LET y == ymd[1]
        mo == ymd[2]
        d == ymd[3]
    IN  << Digit(y \div 1000), Digit((y \div 100) % 10), Digit((y \div 10) % 10), Digit(y % 10),
           45, Digit(mo \div 10), Digit(mo % 10),
           45, Digit(d \div 10), Digit(d % 10) >>

\* date.today()
Today == <<2026, 11, 4>>

\* int(s) of the PNG_SCALE text: a run of decimal digits, anything else raises
IsDigits(cp) == cp # <<>> /\ \A i \in 1..Len(cp) : cp[i] \in 48..57

RECURSIVE ParseInt(_)
ParseInt(cp) ==
    IF cp = <<>> THEN 0 ELSE 10 * ParseInt(SubSeq(cp, 1, Len(cp) - 1)) + (cp[Len(cp)] - 48)

(***************************************************************************)
(* yaml.safe_load on the documents the modelled files carry.  A document   *)
(* is one chunk symbol; the table gives what PyYAML makes of it.           *)
(***************************************************************************)
Loaded(val) == [raised |-> FALSE, val |-> val]
Raised == [raised |-> TRUE, val |-> NoneV]

Dict1(k, x) == DictV([f \in {k} |-> x])
Dict2(k1, x1, k2, x2) == DictV([f \in {k1, k2} |-> IF f = k1 THEN x1 ELSE x2])

YamlDocs ==
    { "id: a", "id: A", "id: B", "title: t", "id: 5", "id: 0", "{}",
      "id: [unclosed", "[x]", "~", "false", "true", "0", "7", "text", "[]", "''",
      "id: a\nlast_generated: 2020-01-02", "id: a\nlast_generated: '2020-01-02'",
      "id: a\nlast_generated: ''", "id: a\nlast_generated: ~",
      "id: a\nlast_generated: 0", "id: a\nrelated_code: [x]" }

yaml_safe_load(fm) ==
    LET doc == fm[1] IN
    CASE doc = "id: a"    -> Loaded(Dict1("id", StrV(<<97>>)))
      [] doc = "id: A"    -> Loaded(Dict1("id", StrV(<<65>>)))
      [] doc = "id: B"    -> Loaded(Dict1("id", StrV(<<66>>)))
      [] doc = "title: t" -> Loaded(Dict1("title", StrV(<<116>>)))
      [] doc = "id: 5"    -> Loaded(Dict1("id", IntV(5)))
      [] doc = "id: 0"    -> Loaded(Dict1("id", IntV(0)))
      [] doc = "{}"       -> Loaded(EmptyDict)
      [] doc = "id: [unclosed" -> Raised
      [] doc = "[x]"      -> Loaded(ListV(<<StrV(<<120>>)>>))
      [] doc = "~"        -> Loaded(NoneV)
      [] doc = "false"    -> Loaded(BoolV(FALSE))
      [] doc = "true"     -> Loaded(BoolV(TRUE))
      [] doc = "0"        -> Loaded(IntV(0))
      [] doc = "7"        -> Loaded(IntV(7))
      [] doc = "text"     -> Loaded(StrV(<<116, 101, 120, 116>>))
      [] doc = "[]"       -> Loaded(EmptyList)
      [] doc = "''"       -> Loaded(EmptyStr)
      [] doc = "id: a\nlast_generated: 2020-01-02" ->
             Loaded(Dict2("id", StrV(<<97>>), "last_generated", DateV(<<2020, 1, 2>>)))
      [] doc = "id: a\nlast_generated: '2020-01-02'" ->
             Loaded(Dict2("id", StrV(<<97>>), "last_generated", StrV(IsoFormat(<<2020, 1, 2>>))))
      [] doc = "id: a\nlast_generated: ''" ->
             Loaded(Dict2("id", StrV(<<97>>), "last_generated", EmptyStr))
      [] doc = "id: a\nlast_generated: ~" ->
             Loaded(Dict2("id", StrV(<<97>>), "last_generated", NoneV))
      [] doc = "id: a\nlast_generated: 0" ->
             Loaded(Dict2("id", StrV(<<97>>), "last_generated", IntV(0)))
      [] doc = "id: a\nrelated_code: [x]" ->
             Loaded(Dict2("id", StrV(<<97>>), "related_code", ListV(<<StrV(<<120>>)>>)))

\* safe_load_yaml: the value and whether the parse-error warning was printed
safe_load_yaml(yaml_text) ==
    LET r == yaml_safe_load(yaml_text) IN
    IF r.raised
    THEN [val |-> EmptyDict, warned |-> TRUE]
    ELSE [val |-> PyOr(r.val, EmptyDict), warned |-> FALSE]

(***************************************************************************)
(* The input tree: diagrams/*.mmd in the order of sorted(glob(...)), each  *)
(* file with the four rendered artifacts next to it.                       *)
(***************************************************************************)
ArtKinds == {"svg", "png", "svg_inverted", "png_inverted"}

\* an artifact: whether os.path.exists finds it and what os.path.getsize
\* gives, -1 standing for an OSError
Absent == [exists |-> FALSE, stat |-> -1]
Present(n) == [exists |-> TRUE, stat |-> n]
Unstatable == [exists |-> TRUE, stat |-> -1]
ArtStates == {Absent, Present(7), Unstatable}
NoArts == [k \in ArtKinds |-> Absent]

Body == <<"graph">>
Comment(doc) == COpen \o <<SP, doc, SP>> \o CClose \o <<NL>> \o Body
Decorated(doc) == COpen \o <<NL, SP, "*", SP, doc, NL, SP>> \o CClose \o <<NL>> \o Body
Fenced(doc) == Sep \o <<NL, doc, NL>> \o Sep \o <<NL>> \o Body

File(text, art) == [readable |-> TRUE, text |-> text, art |-> art]
Unreadable == [readable |-> FALSE, text |-> <<>>, art |-> NoArts]

CoreTexts ==
    { Body, Comment("id: [unclosed"), Fenced("[x]"), Comment("~"),
      Comment("id: a"), Fenced("id: A"), Comment("id: B"), Decorated("title: t"),
      Comment("id: 5") }

CoreFiles == {Unreadable} \cup {File(t, NoArts) : t \in CoreTexts}

DetailTexts ==
    { Fenced("id: [unclosed"), Comment("[x]"), Comment("false"), Comment("true"),
      Comment("0"), Comment("7"), Comment("text"), Comment("[]"), Comment("''"),
      Comment("{}"), Comment("id: 0"),
      Comment("id: a\nlast_generated: 2020-01-02"),
      Comment("id: a\nlast_generated: '2020-01-02'"),
      Comment("id: a\nlast_generated: ''"),
      Comment("id: a\nlast_generated: ~"),
      Comment("id: a\nlast_generated: 0"),
      Fenced("id: a\nrelated_code: [x]"),
      Fenced("id: A") \o <<NL>> \o Comment("id: B"),
      Comment("id: B") \o <<NL>> \o Fenced("id: A"),
      COpen \o <<SP>> \o CClose \o <<NL>> \o Fenced("id: A") }

DetailFiles ==
    {File(t, NoArts) : t \in DetailTexts}
        \cup {File(Comment("id: a"), a) : a \in [ArtKinds -> ArtStates]}

\* the directories the model starts from: up to MaxFiles files of the core
\* kinds, or one file of a kind that varies the document or the artifacts
Trees ==
    UNION {[1..n -> CoreFiles] : n \in 0..MaxFiles} \cup {<<f>> : f \in DetailFiles}

\* the environment variable PNG_SCALE: unset, "2" or "x"
EnvUnset == [set |-> FALSE, s |-> <<>>]
EnvSet(cp) == [set |-> TRUE, s |-> cp]

\* the environment and the index.yml a first run finds
Setups ==
    { [env |-> EnvUnset, index |-> "stale"],
      [env |-> EnvSet(<<50>>), index |-> "none"],
      [env |-> EnvSet(<<120>>), index |-> "stale"] }

\* os.environ.get("PNG_SCALE", "3")
ScaleText(e) == IF e.set THEN e.s ELSE <<51>>

(***************************************************************************)
(* Paths.  A path is a sequence of symbols whose extension is spelled out, *)
(* so that rel_mmd[:-4] drops exactly ".mmd".                              *)
(***************************************************************************)
RelMmd(n) == <<"diagrams", "/", "f", n, ".", "m", "m", "d">>
DropExt(path) == SubSeq(path, 1, Len(path) - 4)
RelSvg(n) == DropExt(RelMmd(n)) \o <<".", "s", "v", "g">>
RelPng(n) == DropExt(RelMmd(n)) \o <<".", "p", "n", "g">>
RelSvgInv(n) == DropExt(RelMmd(n)) \o <<"-inverted", ".", "s", "v", "g">>
RelPngInv(n) == DropExt(RelMmd(n)) \o <<"-inverted", ".", "p", "n", "g">>

\* variant: a failed getsize is reported as a size of 0
file_size_bytes_zero(a) == IF a.stat < 0 THEN IntV(0) ELSE IntV(a.stat)

\* file_size_bytes
file_size_bytes(a) == IF a.stat < 0 THEN NoneV ELSE IntV(a.stat)

\* variant: the png is preferred to the svg
PreferredImagePngFirst(svg_exists, rel_svg, png_exists, rel_png) ==
    IF png_exists THEN StrV(rel_png) ELSE IF svg_exists THEN StrV(rel_svg) ELSE NoneV

\* lines 80-81: rel_svg if svg_exists else (rel_png if png_exists else None)
PreferredImage(svg_exists, rel_svg, png_exists, rel_png) ==
    IF svg_exists THEN StrV(rel_svg) ELSE IF png_exists THEN StrV(rel_png) ELSE NoneV

\* the entry dict of lines 69-109 for file number n
BuildEntry(n, art, data, scale) ==
    LET svg_exists == art["svg"].exists
        png_exists == art["png"].exists
        svg_inv_exists == art["svg_inverted"].exists
        png_inv_exists == art["png_inverted"].exists
        output_img == PreferredImage(svg_exists, RelSvg(n), png_exists, RelPng(n))
        output_img_inverted ==
            PreferredImage(svg_inv_exists, RelSvgInv(n), png_inv_exists, RelPngInv(n))
        last_generated == PyOr(DictGet(data, "last_generated", NoneV), StrV(IsoFormat(Today)))
    IN  [ id |-> DictGet(data, "id", NoneV),
          title |-> DictGet(data, "title", NoneV),
          kind |-> DictGet(data, "kind", NoneV),
          area |-> DictGet(data, "area", NoneV),
          version |-> DictGet(data, "version", NoneV),
          tags |-> DictGet(data, "tags", NoneV),
          owner |-> DictGet(data, "owner", NoneV),
          ai_generator |-> DictGet(data, "ai_generator", NoneV),
          prompt_file |-> DictGet(data, "prompt_file", NoneV),
          prompt_hash |-> DictGet(data, "prompt_hash", NoneV),
          last_generated |-> last_generated,
          related_code |-> DictGet(data, "related_code", EmptyList),
          mmd |-> StrV(RelMmd(n)),
          svg |-> IF svg_exists THEN StrV(RelSvg(n)) ELSE NoneV,
          png |-> IF png_exists THEN StrV(RelPng(n)) ELSE NoneV,
          svg_inverted |-> IF svg_inv_exists THEN StrV(RelSvgInv(n)) ELSE NoneV,
          png_inverted |-> IF png_inv_exists THEN StrV(RelPngInv(n)) ELSE NoneV,
          image |-> output_img,
          image_inverted |-> output_img_inverted,
          png_scale |-> IntV(scale),
          svg_size_bytes |-> IF svg_exists THEN file_size_bytes(art["svg"]) ELSE NoneV,
          png_size_bytes |-> IF png_exists THEN file_size_bytes(art["png"]) ELSE NoneV,
          svg_inverted_size_bytes |->
              IF svg_inv_exists THEN file_size_bytes(art["svg_inverted"]) ELSE NoneV,
          png_inverted_size_bytes |->
              IF png_inv_exists THEN file_size_bytes(art["png_inverted"]) ELSE NoneV ]

(***************************************************************************)
(* entries.sort(key=lambda d: (d.get('id') or '').lower())                 *)
(***************************************************************************)
\* the key function raises AttributeError on a truthy id that is not a str
KeyRaises(d) == Truthy(d.id) /\ d.id.t # "str"

\* variant: the key is not lower-cased
SortKeyCaseSensitive(d) == PyOr(d.id, EmptyStr).v

SortKey(d) == Lower(PyOr(d.id, EmptyStr).v)

\* list.sort is stable: an entry goes after every entry whose key is not greater
RECURSIVE InsertSorted(_, _)
InsertSorted(s, d) ==
    IF s = <<>> THEN <<d>>
    ELSE IF StrLess(SortKey(d), SortKey(Head(s))) THEN <<d>> \o s
    ELSE <<Head(s)>> \o InsertSorted(Tail(s), d)

RECURSIVE SortedEntries(_)
SortedEntries(s) ==
    IF s = <<>> THEN <<>>
    ELSE InsertSorted(SortedEntries(SubSeq(s, 1, Len(s) - 1)), s[Len(s)])

(***************************************************************************)
(* index.yml: whether it exists, whether the last dump ran to its end, and *)
(* the sequence under `diagrams`.                                          *)
(***************************************************************************)
NoIndex == [exists |-> FALSE, complete |-> FALSE, diagrams |-> <<>>]
StaleIndex ==
    [exists |-> TRUE, complete |-> TRUE,
     diagrams |-> <<BuildEntry(0, NoArts, Dict1("id", StrV(<<111, 108, 100>>)), 3)>>]

\* variant: the dump is appended to what index.yml held
WrittenIndexMerged(old, out) ==
    [exists |-> TRUE, complete |-> TRUE, diagrams |-> old.diagrams \o out]

\* open(OUT_INDEX, 'w') and yaml.dump(output, out_f): the file holds the dump
WrittenIndex(old, out) == [exists |-> TRUE, complete |-> TRUE, diagrams |-> out]

\* the dump stops after k entries: the file was truncated by open()
PartialIndex(out, k) == [exists |-> TRUE, complete |-> FALSE, diagrams |-> SubSeq(out, 1, k)]

InitialIndex(which) == IF which = "stale" THEN StaleIndex ELSE NoIndex

\* a line of standard output
Msg(level, what, arg) == [level |-> level, what |-> what, arg |-> arg]

(***************************************************************************)
(* State.                                                                  *)
(*   tree       the diagrams directory, in enumeration order               *)
(*   env        the PNG_SCALE environment variable                         *)
(*   index      index.yml                                                  *)
(*   pc         where the process is: idle, loop, write, done, crashed     *)
(*              (extract / extracted for a lone call of                    *)
(*              extract_frontmatter)                                       *)
(*   run        number of runs of main() started so far                    *)
(*   i          position of the for loop in files                          *)
(*   png_scale, entries, text, fm_text   the locals of main()              *)
(*   stdout     the lines printed by the current run                       *)
(*   outputs    per run, the entries it computed, or that it crashed       *)
(***************************************************************************)
VARIABLES tree, env, index, pc, run, i, png_scale, entries, text, fm_text, stdout, outputs

vars == <<tree, env, index, pc, run, i, png_scale, entries, text, fm_text, stdout, outputs>>

Completed(out) == [crashed |-> FALSE, diagrams |-> out]
Crashed == [crashed |-> TRUE, diagrams |-> <<>>]

Init ==
    /\ tree \in Trees
    /\ \E su \in Setups :
        /\ env = su.env
        /\ index = InitialIndex(su.index)
    /\ pc = "idle"
    /\ run = 0
    /\ i = 0
    /\ png_scale = 0
    /\ entries = <<>>
    /\ text = <<>>
    /\ fm_text = NoneText
    /\ stdout = <<>>
    /\ outputs = <<>>

\* lines 48-50: a new process reads PNG_SCALE and enumerates the files
MainStart ==
    /\ pc \in {"idle", "done", "crashed"}
    /\ run < MaxRuns
    /\ IsDigits(ScaleText(env))
    /\ run' = run + 1
    /\ png_scale' = ParseInt(ScaleText(env))
    /\ entries' = <<>>
    /\ i' = 1
    /\ text' = <<>>
    /\ fm_text' = NoneText
    /\ stdout' = <<>>
    /\ pc' = "loop"
    /\ UNCHANGED <<tree, env, index, outputs>>

\* line 48: int() raises ValueError, nothing catches it
MainStartRaises ==
    /\ pc \in {"idle", "done", "crashed"}
    /\ run < MaxRuns
    /\ ~IsDigits(ScaleText(env))
    /\ run' = run + 1
    /\ png_scale' = 0
    /\ entries' = <<>>
    /\ i' = 0
    /\ text' = <<>>
    /\ fm_text' = NoneText
    /\ stdout' = <<>>
    /\ pc' = "crashed"
    /\ outputs' = Append(outputs, Crashed)
    /\ UNCHANGED <<tree, env, index>>

InLoop == pc = "loop" /\ i <= Len(tree)

\* lines 52-57: the file cannot be read
SkipUnreadable ==
    /\ InLoop
    /\ ~tree[i].readable
    /\ stdout' = Append(stdout, Msg("error", "Cannot read", i))
    /\ i' = i + 1
    /\ UNCHANGED <<tree, env, index, pc, run, png_scale, entries, text, fm_text, outputs>>

\* lines 59-62: no frontmatter, or an empty one
SkipNoFrontmatter ==
    /\ InLoop
    /\ tree[i].readable
    /\ LET fm == extract_frontmatter(tree[i].text) IN
        /\ ~fm.ok \/ fm.s = <<>>
        /\ text' = tree[i].text
        /\ fm_text' = fm
    /\ stdout' = Append(stdout, Msg("warn", "No frontmatter found", i))
    /\ i' = i + 1
    /\ UNCHANGED <<tree, env, index, pc, run, png_scale, entries, outputs>>

\* what safe_load_yaml prints for the frontmatter fm
ParseWarning(loaded) ==
    IF loaded.warned THEN <<Msg("warn", "YAML parse error", 0)>> ELSE <<>>

\* lines 64-67: the frontmatter did not load to a dict
SkipNotDict ==
    /\ InLoop
    /\ tree[i].readable
    /\ LET fm == extract_frontmatter(tree[i].text)
           loaded == safe_load_yaml(fm.s)
       IN
        /\ fm.ok /\ fm.s # <<>>
        /\ loaded.val.t # "dict"
        /\ text' = tree[i].text
        /\ fm_text' = fm
        /\ stdout' = stdout \o ParseWarning(loaded)
                        \o <<Msg("warn", "didn't parse to dict", i)>>
    /\ i' = i + 1
    /\ UNCHANGED <<tree, env, index, pc, run, png_scale, entries, outputs>>

\* lines 64-111: the frontmatter loaded to a dict; the entry is appended
AppendEntry ==
    /\ InLoop
    /\ tree[i].readable
    /\ LET fm == extract_frontmatter(tree[i].text)
           loaded == safe_load_yaml(fm.s)
       IN
        /\ fm.ok /\ fm.s # <<>>
        /\ loaded.val.t = "dict"
        /\ text' = tree[i].text
        /\ fm_text' = fm
        /\ stdout' = stdout \o ParseWarning(loaded)
        /\ entries' = Append(entries, BuildEntry(i, tree[i].art, loaded.val, png_scale))
    /\ i' = i + 1
    /\ UNCHANGED <<tree, env, index, pc, run, png_scale, outputs>>

LoopOver == pc = "loop" /\ i > Len(tree)

\* line 113
SortEntries ==
    /\ LoopOver
    /\ \A k \in 1..Len(entries) : ~KeyRaises(entries[k])
    /\ entries' = SortedEntries(entries)
    /\ pc' = "write"
    /\ UNCHANGED <<tree, env, index, run, i, png_scale, text, fm_text, stdout, outputs>>

\* line 113: the key function raises AttributeError, nothing catches it
SortRaises ==
    /\ LoopOver
    /\ \E k \in 1..Len(entries) : KeyRaises(entries[k])
    /\ pc' = "crashed"
    /\ outputs' = Append(outputs, Crashed)
    /\ UNCHANGED <<tree, env, index, run, i, png_scale, entries, text, fm_text, stdout>>

\* lines 115-119
WriteIndex ==
    /\ pc = "write"
    /\ index' = WrittenIndex(index, entries)
    /\ stdout' = Append(stdout, Msg("info", "Wrote index", Len(entries)))
    /\ outputs' = Append(outputs, Completed(entries))
    /\ pc' = "done"
    /\ UNCHANGED <<tree, env, run, i, png_scale, entries, text, fm_text>>

\* lines 116-121: open() raises, index.yml is left as it was
WriteOpenFails ==
    /\ pc = "write"
    /\ stdout' = Append(stdout, Msg("error", "Failed to write index.yml", 0))
    /\ outputs' = Append(outputs, Completed(entries))
    /\ pc' = "done"
    /\ UNCHANGED <<tree, env, index, run, i, png_scale, entries, text, fm_text>>

\* lines 116-121: yaml.dump raises after open() truncated index.yml
WriteDumpFails ==
    /\ pc = "write"
    /\ \E k \in 0..Len(entries) :
        /\ k = 0 \/ k < Len(entries)
        /\ index' = PartialIndex(entries, k)
    /\ stdout' = Append(stdout, Msg("error", "Failed to write index.yml", 0))
    /\ outputs' = Append(outputs, Completed(entries))
    /\ pc' = "done"
    /\ UNCHANGED <<tree, env, run, i, png_scale, entries, text, fm_text>>

Next ==
    \/ MainStart
    \/ MainStartRaises
    \/ SkipUnreadable
    \/ SkipNoFrontmatter
    \/ SkipNotDict
    \/ AppendEntry
    \/ SortEntries
    \/ SortRaises
    \/ WriteIndex
    \/ WriteOpenFails
    \/ WriteDumpFails

Spec == Init /\ [][Next]_vars

(***************************************************************************)
(* extract_frontmatter on its own: one call on each text made of up to     *)
(* MaxChunks pieces.                                                       *)
(***************************************************************************)
Chunks == {COpen, CClose, Sep, <<"a">>, <<"*">>, <<"/">>, <<SP>>, <<NL>>}

RECURSIVE Concats(_)
Concats(n) ==
    IF n = 0 THEN {<<>>}
    ELSE LET shorter == Concats(n - 1) IN
         shorter \cup {t \o c : t \in shorter, c \in Chunks}

ExtractTexts == Concats(MaxChunks)

InitExtract ==
    /\ text \in ExtractTexts
    /\ pc = "extract"
    /\ fm_text = NoneText
    /\ tree = <<>>
    /\ env = EnvUnset
    /\ index = NoIndex
    /\ run = 0
    /\ i = 0
    /\ png_scale = 0
    /\ entries = <<>>
    /\ stdout = <<>>
    /\ outputs = <<>>

\* line 59, fm_text = extract_frontmatter(text), taken alone
ExtractCall ==
    /\ pc = "extract"
    /\ fm_text' = extract_frontmatter(text)
    /\ pc' = "extracted"
    /\ UNCHANGED <<tree, env, index, run, i, png_scale, entries, text, stdout, outputs>>

NextExtract == ExtractCall

SpecExtract == InitExtract /\ [][NextExtract]_vars

(***************************************************************************)
(* C9.  The blocks of a text, stated without the regular expressions.      *)
(***************************************************************************)
\* the pairs <<a, b>>: an opening delimiter at a and a closing one at b behind it
Positions(t, lit) == {p \in 1..Len(t) : HasAt(t, p, lit)}

BlockPairs(t, open, close) ==
    {ab \in Positions(t, open) \X Positions(t, close) : ab[2] >= ab[1] + Len(open)}

HasBlock(t, open, close) == BlockPairs(t, open, close) # {}

\* what lies between the first opening delimiter and the first closing one behind it
BlockContent(t, open, close) ==
    LET pairs == BlockPairs(t, open, close)
        a == CHOOSE x \in {ab[1] : ab \in pairs} : \A ab \in pairs : x <= ab[1]
        b == CHOOSE y \in {ab[2] : ab \in pairs} :
                 \A ab \in pairs : ab[1] = a => y <= ab[2]
    IN  SubSeq(t, a + Len(open), b - 1)

RECURSIVE NoWs(_)
NoWs(s) ==
    IF s = <<>> THEN <<>>
    ELSE IF IsSpace(Head(s)) THEN NoWs(Tail(s))
    ELSE <<Head(s)>> \o NoWs(Tail(s))

\* the symbols of s that are not whitespace, less the "*" that leads a line;
\* lead is TRUE while nothing but whitespace was seen on the current line
RECURSIVE Undecorated(_, _)
Undecorated(s, lead) ==
    IF s = <<>> THEN <<>>
    ELSE IF Head(s) = NL THEN Undecorated(Tail(s), TRUE)
    ELSE IF Head(s) = SP THEN Undecorated(Tail(s), lead)
    ELSE IF lead /\ Head(s) = "*" THEN Undecorated(Tail(s), FALSE)
    ELSE <<Head(s)>> \o Undecorated(Tail(s), FALSE)

\* C9: extract_frontmatter gives the comment-delimited block whenever the text
\* has one, also when a separator-delimited block is present: its content with
\* the leading "*" of each line stripped; it gives the separator-delimited
\* block's content only when the text has no comment-delimited block; and it
\* gives None exactly when the text has neither.
C9_ExtractionPriority ==
    pc = "extracted" =>
        LET hasC == HasBlock(text, COpen, CClose)
            hasS == HasBlock(text, Sep, Sep)
        IN  /\ hasC =>
                /\ fm_text = SomeText(Strip(SubDecoration(BlockContent(text, COpen, CClose), 1)))
                /\ NoWs(fm_text.s) = Undecorated(BlockContent(text, COpen, CClose), TRUE)
            /\ (~hasC /\ hasS) => fm_text = SomeText(Strip(BlockContent(text, Sep, Sep)))
            /\ ~fm_text.ok <=> (~hasC /\ ~hasS)

\* a text with both kinds of block, whose contents differ, has been extracted
C9_Witness ==
    /\ pc = "extracted"
    /\ HasBlock(text, COpen, CClose)
    /\ HasBlock(text, Sep, Sep)
    /\ Strip(BlockContent(text, COpen, CClose)) # Strip(BlockContent(text, Sep, Sep))
    /\ fm_text.ok

(***************************************************************************)
(* What a file of the tree is, read off the tree alone.                    *)
(***************************************************************************)
FileFm(f) == extract_frontmatter(f.text)

\* main() got a non-empty frontmatter text out of the file
BlockFound(f) == f.readable /\ FileFm(f).ok /\ FileFm(f).s # <<>>

\* the frontmatter is not valid YAML: yaml.safe_load raises
Malformed(f) == BlockFound(f) /\ yaml_safe_load(FileFm(f).s).raised

ParsedValue(f) == yaml_safe_load(FileFm(f).s).val

\* the frontmatter parses, to something that is not a mapping
NonMapping(f) ==
    BlockFound(f) /\ ~yaml_safe_load(FileFm(f).s).raised /\ ParsedValue(f).t # "dict"

\* the frontmatter parses to a mapping
ValidFile(f) ==
    BlockFound(f) /\ ~yaml_safe_load(FileFm(f).s).raised /\ ParsedValue(f).t = "dict"

\* the current run is past file k
Past(k) == run >= 1 /\ k \in 1..Len(tree) /\ k < i

\* the positions in entries of the entries made for file k
EntriesOf(k) ==
    {j \in 1..Len(entries) : entries[j].mmd = StrV(<<"diagrams", "/", "f", k, ".", "m", "m", "d">>)}

FileNo(e) == e.mmd.v[4]

WroteOk == pc = "done" /\ stdout # <<>> /\ stdout[Len(stdout)].level = "info"

(***************************************************************************)
(* C1                                                                      *)
(***************************************************************************)
\* C1: a file whose frontmatter block is found but is not valid YAML gets no
\* entry in the index, and the run goes on to every later file.
C1_SkipMalformed ==
    \A k \in 1..Len(tree) :
        Malformed(tree[k]) =>
            /\ Past(k) => EntriesOf(k) = {}
            /\ pc \in {"write", "done"} => i = Len(tree) + 1

(***************************************************************************)
(* C2                                                                      *)
(***************************************************************************)
\* C2: a file whose frontmatter parses without error to a value that is not a
\* mapping is skipped with a warning and gets no entry; a file whose
\* frontmatter parses without error gets an entry only if the value is a mapping.
C2_SkipNonMapping ==
    \A k \in 1..Len(tree) :
        (Past(k) /\ BlockFound(tree[k]) /\ ~Malformed(tree[k])) =>
            /\ NonMapping(tree[k]) =>
                /\ EntriesOf(k) = {}
                /\ \E n \in 1..Len(stdout) :
                       stdout[n] = Msg("warn", "didn't parse to dict", k)
            /\ EntriesOf(k) # {} => ParsedValue(tree[k]).t = "dict"

(***************************************************************************)
(* C3                                                                      *)
(***************************************************************************)
\* C3: once the loop is over, a file in which neither convention matches has
\* no entry, every readable file whose block parses to a mapping has exactly
\* one, and the number of entries is the number of those valid files.
C3_SkipMissing ==
    pc \in {"write", "done"} =>
        /\ \A k \in 1..Len(tree) :
               (tree[k].readable /\ ~FileFm(tree[k]).ok) => EntriesOf(k) = {}
        /\ \A k \in 1..Len(tree) :
               ValidFile(tree[k]) => Cardinality(EntriesOf(k)) = 1
        /\ Len(entries) = Cardinality({k \in 1..Len(tree) : ValidFile(tree[k])})

(***************************************************************************)
(* C4                                                                      *)
(***************************************************************************)
\* the key the index is ordered by: the lower-cased id, "" for an entry without one
OrderKey(e) == IF e.id.t = "str" THEN Lower(e.id.v) ELSE <<>>

SortedStable(s) ==
    \A j, k \in 1..Len(s) :
        j < k =>
            /\ ~StrLess(OrderKey(s[k]), OrderKey(s[j]))
            /\ OrderKey(s[j]) = OrderKey(s[k]) => FileNo(s[j]) < FileNo(s[k])

\* C4: the sequence handed to the write step, and the sequence written under
\* `diagrams`, is in ascending order of the lower-cased id, an entry without
\* id counting as "", and entries with equal keys are in the order of their
\* files in the enumeration.
C4_SortedStable ==
    /\ pc \in {"write", "done"} => SortedStable(entries)
    /\ WroteOk => index.diagrams = entries /\ SortedStable(index.diagrams)

\* an index was written whose two entries have ids that differ only in case
C4_Witness ==
    /\ WroteOk
    /\ Len(index.diagrams) = 2
    /\ index.diagrams[1].id # index.diagrams[2].id
    /\ OrderKey(index.diagrams[1]) = OrderKey(index.diagrams[2])
    /\ OrderKey(index.diagrams[1]) # <<>>

(***************************************************************************)
(* C5                                                                      *)
(***************************************************************************)
SvgPath(n) == StrV(<<"diagrams", "/", "f", n, ".", "s", "v", "g">>)
PngPath(n) == StrV(<<"diagrams", "/", "f", n, ".", "p", "n", "g">>)
SvgInvPath(n) == StrV(<<"diagrams", "/", "f", n, "-inverted", ".", "s", "v", "g">>)
PngInvPath(n) == StrV(<<"diagrams", "/", "f", n, "-inverted", ".", "p", "n", "g">>)

\* C5: in every entry, image is the svg path when the svg exists, the png path
\* when only the png exists, null when neither does, hence non-null only if svg
\* or png is; the same for image_inverted over the inverted pair, whatever the
\* other pair is.
C5_ImagePreference ==
    \A j \in 1..Len(entries) :
        LET e == entries[j]
            n == FileNo(e)
            art == tree[n].art
        IN  /\ art["svg"].exists => e.image = SvgPath(n) /\ e.image = e.svg
            /\ (~art["svg"].exists /\ art["png"].exists) =>
                   e.image = PngPath(n) /\ e.image = e.png
            /\ (~art["svg"].exists /\ ~art["png"].exists) => e.image = NoneV
            /\ e.image # NoneV => (e.svg # NoneV \/ e.png # NoneV)
            /\ art["svg_inverted"].exists =>
                   e.image_inverted = SvgInvPath(n) /\ e.image_inverted = e.svg_inverted
            /\ (~art["svg_inverted"].exists /\ art["png_inverted"].exists) =>
                   e.image_inverted = PngInvPath(n) /\ e.image_inverted = e.png_inverted
            /\ (~art["svg_inverted"].exists /\ ~art["png_inverted"].exists) =>
                   e.image_inverted = NoneV
            /\ e.image_inverted # NoneV => (e.svg_inverted # NoneV \/ e.png_inverted # NoneV)

\* an entry of a file with svg and png both present, and only the inverted png
C5_Witness ==
    \E j \in 1..Len(entries) :
        LET art == tree[FileNo(entries[j])].art IN
        /\ art["svg"].exists /\ art["png"].exists
        /\ ~art["svg_inverted"].exists /\ art["png_inverted"].exists
        /\ entries[j].image = entries[j].svg
        /\ entries[j].image_inverted = entries[j].png_inverted

(***************************************************************************)
(* C6                                                                      *)
(***************************************************************************)
\* C6: an entry's last_generated is today's date in ISO 8601 form when the
\* metadata mapping has no last_generated field, and is the metadata's value,
\* whatever it is, when the mapping has one.
C6_DefaultDate ==
    \A k \in 1..Len(tree) :
        (Past(k) /\ ValidFile(tree[k])) =>
            \A j \in EntriesOf(k) :
                IF "last_generated" \in DOMAIN ParsedValue(tree[k]).m
                THEN entries[j].last_generated = ParsedValue(tree[k]).m["last_generated"]
                ELSE entries[j].last_generated
                         = StrV(<<50, 48, 50, 54, 45, 49, 49, 45, 48, 52>>)

(***************************************************************************)
(* C7                                                                      *)
(***************************************************************************)
\* C7: whatever the files hold, a run of main() with a usable PNG_SCALE never
\* ends abnormally, and when it ends it has been through every file.
C7_NonFatal ==
    IsDigits(ScaleText(env)) =>
        /\ pc # "crashed"
        /\ pc = "done" => i = Len(tree) + 1

(***************************************************************************)
(* C8                                                                      *)
(***************************************************************************)
\* C8: all runs of main() against the tree compute the same index, entry for
\* entry and in the same order, and a run that writes index.yml leaves in it
\* exactly what it computed: nothing of the earlier content survives.
C8_Idempotent ==
    /\ \A r1, r2 \in 1..Len(outputs) : outputs[r1] = outputs[r2]
    /\ WroteOk =>
        /\ index.exists /\ index.complete
        /\ index.diagrams = outputs[run].diagrams
        /\ \A n \in 1..Len(index.diagrams) :
               \E j \in 1..Len(entries) : index.diagrams[n] = entries[j]

\* a second run has written a non-empty index over the one the first run wrote,
\* the first run having written over a stale one
C8_Witness ==
    /\ run = 2
    /\ WroteOk
    /\ env = EnvUnset
    /\ Len(outputs) = 2
    /\ ~outputs[1].crashed
    /\ outputs[1].diagrams # <<>>
    /\ index.diagrams = outputs[1].diagrams

(***************************************************************************)
(* C10                                                                     *)
(***************************************************************************)
PathField(e, kind) ==
    CASE kind = "svg" -> e.svg
      [] kind = "png" -> e.png
      [] kind = "svg_inverted" -> e.svg_inverted
      [] kind = "png_inverted" -> e.png_inverted

SizeField(e, kind) ==
    CASE kind = "svg" -> e.svg_size_bytes
      [] kind = "png" -> e.png_size_bytes
      [] kind = "svg_inverted" -> e.svg_inverted_size_bytes
      [] kind = "png_inverted" -> e.png_inverted_size_bytes

\* C10: in every entry and for each of the four artifacts, the path is non-null
\* exactly when the file existed, the size is non-null only if the path is, and
\* a size that could not be read is null while the path is set; the file whose
\* artifact size could not be read still gets its entry.
C10_ArtifactFacts ==
    /\ \A j \in 1..Len(entries) : \A kind \in ArtKinds :
           LET e == entries[j]
               a == tree[FileNo(e)].art[kind]
           IN  /\ PathField(e, kind) # NoneV <=> a.exists
               /\ SizeField(e, kind) # NoneV => PathField(e, kind) # NoneV
               /\ (a.exists /\ a.stat < 0) => SizeField(e, kind) = NoneV
               /\ (a.exists /\ a.stat >= 0) => SizeField(e, kind) = IntV(a.stat)
    /\ \A k \in 1..Len(tree) :
           (Past(k) /\ ValidFile(tree[k])) => EntriesOf(k) # {}

\* an entry whose svg exists but could not be sized, next to a png that could
C10_Witness ==
    \E j \in 1..Len(entries) :
        /\ entries[j].svg = SvgPath(FileNo(entries[j]))
        /\ entries[j].svg_size_bytes = NoneV
        /\ entries[j].png_size_bytes = IntV(7)
        /\ tree[FileNo(entries[j])].art["svg"] = Unstatable

====
